---- MODULE Spec2Model ----
(***************************************************************************)
(* The authenticated request pipeline of ldap-rest-client: HttpClient      *)
(* (request / handleResponse), the error taxonomy and the HMAC signer.     *)
(*                                                                         *)
(* JavaScript values are modelled as follows.                              *)
(*   - undefined / absent is None (the empty tuple), a present value v is  *)
(*     Some(v) (a one-element tuple);                                      *)
(*   - message and header strings that the code only builds or compares    *)
(*     are TLA+ strings; strings the code scans are tuples: a retry-after  *)
(*     value is a tuple of characters (parseInt), a content-type value a   *)
(*     tuple of lexemes (String.includes);                                 *)
(*   - an error object is a record carrying its class, its own fields and  *)
(*     oid, the identity of the object ("transport" for an object the      *)
(*     transport raised, "new" for one the pipeline constructs).           *)
(***************************************************************************)
EXTENDS Integers, Sequences, FiniteSets, TLC

\* Number of call slots of one HttpClient.
NumCalls == 2

Calls == 1..NumCalls

None == <<>>
Some(x) == <<x>>
IsSome(o) == o # None
Get(o) == o[1]

-----------------------------------------------------------------------------
(* Error taxonomy: errors/LdapRestError.ts, errors/ApiError.ts *)

\* The prototype chain of each class of thrown value the model uses.
SuperClasses(class) ==
  CASE class = "Error"               -> {"Error"}
    [] class = "TypeError"           -> {"TypeError", "Error"}
    [] class = "SyntaxError"         -> {"SyntaxError", "Error"}
    [] class = "DOMException"        -> {"DOMException", "Error"}
    [] class = "LdapRestError"       -> {"LdapRestError", "Error"}
    [] class = "ApiError"            -> {"ApiError", "LdapRestError", "Error"}
    [] class = "ValidationError"     -> {"ValidationError", "LdapRestError", "Error"}
    [] class = "AuthenticationError" -> {"AuthenticationError", "LdapRestError", "Error"}
    [] class = "AuthorizationError"  -> {"AuthorizationError", "LdapRestError", "Error"}
    [] class = "NotFoundError"       -> {"NotFoundError", "LdapRestError", "Error"}
    [] class = "ConflictError"       -> {"ConflictError", "LdapRestError", "Error"}
    [] class = "RateLimitError"      -> {"RateLimitError", "LdapRestError", "Error"}
    [] class = "NetworkError"        -> {"NetworkError", "LdapRestError", "Error"}
    [] OTHER                         -> {}

InstanceOf(e, class) == class \in SuperClasses(e.class)

\* The eight variants of the pipeline's taxonomy.
Taxonomy ==
  {"ValidationError", "AuthenticationError", "AuthorizationError", "NotFoundError",
   "ConflictError", "RateLimitError", "ApiError", "NetworkError"}

\* new LdapRestError(message, statusCode?, code?), as run by a subclass `class`:
\* name is the constructor's name.
LdapRestError(class, message, statusCode, code) ==
  [class |-> class, name |-> class, message |-> message, statusCode |-> statusCode,
   code |-> code, retryAfter |-> None, cause |-> None, oid |-> "new"]

ApiError(message, statusCode, code) ==
  LdapRestError("ApiError", message, Some(statusCode), code)

\* A missing field of the body is undefined; Error(undefined) has message "".
ApiErrorFromResponse(statusCode, body) ==
  ApiError(IF IsSome(body.error) THEN Get(body.error) ELSE "", statusCode, body.code)

ValidationError(message) ==
  LdapRestError("ValidationError", message, Some(400), Some("VALIDATION_ERROR"))

AuthenticationError(message) ==
  LdapRestError("AuthenticationError", message, Some(401), Some("AUTHENTICATION_ERROR"))

AuthorizationError(message) ==
  LdapRestError("AuthorizationError", message, Some(403), Some("AUTHORIZATION_ERROR"))

\* code || 'NOT_FOUND': an undefined or empty code gives the default.
NotFoundError(message, code) ==
  LdapRestError("NotFoundError", message, Some(404),
                IF IsSome(code) /\ Get(code) # "" THEN code ELSE Some("NOT_FOUND"))

ConflictError(message, code) ==
  LdapRestError("ConflictError", message, Some(409),
                IF IsSome(code) /\ Get(code) # "" THEN code ELSE Some("CONFLICT"))

RateLimitError(message, retryAfter) ==
  [LdapRestError("RateLimitError", message, Some(429), Some("RATE_LIMIT_EXCEEDED"))
     EXCEPT !.retryAfter = retryAfter]

\* super(message): statusCode and code stay undefined.
NetworkError(message, cause) ==
  [LdapRestError("NetworkError", message, None, None) EXCEPT !.cause = cause]

\* A thrown value that is no LdapRestError: a host error (TypeError, DOMException,
\* SyntaxError, Error) or, with class "NonError", a value that is no Error at all.
HostError(class, name, message) ==
  [class |-> class, name |-> name, message |-> message, statusCode |-> None,
   code |-> None, retryAfter |-> None, cause |-> None, oid |-> "new"]

-----------------------------------------------------------------------------
(* String helpers of the host language *)

\* String.prototype.toUpperCase on the method names the model uses.
ToUpperCase(s) ==
  CASE s = "get"    -> "GET"
    [] s = "post"   -> "POST"
    [] s = "patch"  -> "PATCH"
    [] s = "delete" -> "DELETE"
    [] s = "head"   -> "HEAD"
    [] s = "Post"   -> "POST"
    [] OTHER        -> s

\* The strings s for which s.trim().length === 0, among those the model uses.
BlankStrings == {"", " ", " \n\t "}

IsDigit(ch) == ch \in {"0", "1", "2", "3", "4", "5", "6", "7", "8", "9"}

DigitValue(ch) ==
  CASE ch = "0" -> 0 [] ch = "1" -> 1 [] ch = "2" -> 2 [] ch = "3" -> 3 [] ch = "4" -> 4
    [] ch = "5" -> 5 [] ch = "6" -> 6 [] ch = "7" -> 7 [] ch = "8" -> 8 [] ch = "9" -> 9

RECURSIVE SkipWhiteSpace(_)
SkipWhiteSpace(chars) ==
  IF chars # <<>> /\ Head(chars) \in {" ", "\t", "\n"}
  THEN SkipWhiteSpace(Tail(chars))
  ELSE chars

\* The value of the longest prefix of decimal digits, most significant first.
RECURSIVE DigitsValue(_, _)
DigitsValue(chars, acc) ==
  IF chars # <<>> /\ IsDigit(Head(chars))
  THEN DigitsValue(Tail(chars), 10 * acc + DigitValue(Head(chars)))
  ELSE acc

\* parseInt(chars, 10): leading white space is skipped, one sign is read, then
\* the longest run of digits; with no digit the result is NaN.
ParseInt(chars) ==
  LET s      == SkipWhiteSpace(chars)
      signed == s # <<>> /\ Head(s) \in {"-", "+"}
      digits == IF signed THEN Tail(s) ELSE s
      value  == DigitsValue(digits, 0)
  IN  IF digits = <<>> \/ ~IsDigit(Head(digits))
      THEN [nan |-> TRUE, val |-> 0]
      ELSE [nan |-> FALSE, val |-> IF signed /\ Head(s) = "-" THEN 0 - value ELSE value]

\* String.prototype.includes: needle occurs in hay as a contiguous run.
Includes(hay, needle) ==
  \E i \in 0..(Len(hay) - Len(needle)) :
    SubSeq(hay, i + 1, i + Len(needle)) = needle

-----------------------------------------------------------------------------
(* The signer: lib/Auth.ts, lib/HmacAuth.ts *)

\* SHA-256 and HMAC-SHA256 hex digests, kept symbolic: distinct inputs give
\* distinct digests, and no digest is blank.
Sha256Hex(data) == "sha256(" \o data \o ")"
HmacSha256Hex(secret, data) == "hmac(" \o secret \o "," \o data \o ")"

\* Mutant of hashBody: HEAD is not among the methods without a body hash.
hashBodyWithoutHead(method, body) ==
  LET upperMethod == ToUpperCase(method)
  IN  IF upperMethod \in {"GET", "DELETE"} THEN ""
      ELSE IF body = None \/ Get(body) \in BlankStrings THEN ""
      ELSE Sha256Hex(Get(body))

hashBody(method, body) ==
  LET upperMethod == ToUpperCase(method)
  IN  IF upperMethod \in {"GET", "DELETE", "HEAD"} THEN ""
      ELSE IF body = None \/ Get(body) \in BlankStrings THEN ""
      ELSE Sha256Hex(Get(body))

computeHmac(secret, data) == HmacSha256Hex(secret, data)

\* Mutant of generateSignature: the method enters the signing string as given.
generateSignatureVerbatimMethod(cfg, params, timestamp) ==
  LET bodyHash      == hashBody(params.method, params.body)
      signingString == params.method \o "|" \o params.path \o "|"
                         \o ToString(timestamp) \o "|" \o bodyHash
  IN  [serviceId |-> cfg.serviceId, timestamp |-> timestamp,
       signature |-> computeHmac(cfg.secret, signingString)]

\* Mutant of generateSignature: the path is left out of the signing string.
generateSignatureWithoutPath(cfg, params, timestamp) ==
  LET bodyHash      == hashBody(params.method, params.body)
      signingString == ToUpperCase(params.method) \o "|"
                         \o ToString(timestamp) \o "|" \o bodyHash
  IN  [serviceId |-> cfg.serviceId, timestamp |-> timestamp,
       signature |-> computeHmac(cfg.secret, signingString)]

\* timestamp is the one reading of Date.now() of the call.
generateSignature(cfg, params, timestamp) ==
  LET bodyHash      == hashBody(params.method, params.body)
      signingString == ToUpperCase(params.method) \o "|" \o params.path \o "|"
                         \o ToString(timestamp) \o "|" \o bodyHash
  IN  [serviceId |-> cfg.serviceId, timestamp |-> timestamp,
       signature |-> computeHmac(cfg.secret, signingString)]

\* Mutant of HmacAuthSign: the header's timestamp is a second, later reading of
\* the clock.
HmacAuthSignRereadingClock(cfg, params, timestamp) ==
  LET signature == generateSignature(cfg, params, timestamp)
  IN  "HMAC-SHA256 " \o signature.serviceId \o ":" \o ToString(timestamp + 1)
        \o ":" \o signature.signature

HmacAuthSign(cfg, params, timestamp) ==
  LET signature == generateSignature(cfg, params, timestamp)
  IN  "HMAC-SHA256 " \o signature.serviceId \o ":" \o ToString(signature.timestamp)
        \o ":" \o signature.signature

\* this.auth?.sign(params): undefined without a signer; an HmacAuth signs; any
\* other Auth returns its header value, or the empty string when no header is
\* needed.
AuthSign(signer, params, timestamp) ==
  IF signer = None THEN None
  ELSE IF Get(signer).type = "hmac" THEN Some(HmacAuthSign(Get(signer), params, timestamp))
  ELSE Some(Get(signer).output)

\* The readings of Date.now() that this.auth?.sign(params) takes: an HmacAuth
\* takes one, in generateSignature.
ClockReadings(signer, timestamp) ==
  IF signer # None /\ Get(signer).type = "hmac" THEN <<timestamp>> ELSE <<>>

-----------------------------------------------------------------------------
(* Inputs: the configurations, request options, responses and transport
   failures the model draws from *)

Timeouts == {5000, 30000}

Configs == [baseUrl : {"https://api.example.com"}, timeout : Timeouts]

\* No signer (cookie mode), an HmacAuth, and an Auth whose sign returns the
\* empty string ("no header needed", lib/Auth.ts).
Signers ==
  {None,
   Some([type |-> "hmac", serviceId |-> "svc", secret |-> "s3cret"]),
   Some([type |-> "custom", output |-> ""])}

\* Readings of Date.now().
Times == {1000}

Methods == {"GET", "POST", "PATCH", "DELETE"}

Paths == {"/api/v1/users"}

\* Request bodies: undefined, and the object {"cn":"a"}.
RequestBodies ==
  {None, Some([t |-> "object", key |-> "cn", val |-> "a"])}

\* Caller-supplied headers: undefined is the empty record.
RequestHeaders ==
  {<<>>,
   [x \in {"X-Request-Id"} |-> "42"],
   [x \in {"Authorization"} |-> "Bearer caller"]}

RequestOptionsSet ==
  [method : Methods, path : Paths, body : RequestBodies, headers : RequestHeaders]

\* Inputs of direct calls of HmacAuth.sign: two secrets, methods in several
\* spellings, paths with and without a query, bodies absent, empty, blank and
\* serialized, and two readings of the clock.
SignSigners ==
  {Some([type |-> "hmac", serviceId |-> "svc", secret |-> k]) : k \in {"s3cret", "0ther"}}

SignMethods == {"GET", "POST", "post", "delete", "HEAD"}

SignPaths == {"/api/v1/users", "/api/v1/users?by=uid"}

SignBodies == {None, Some(""), Some(" \n\t "), Some("{\"cn\":\"a\"}"), Some("{\"cn\":\"b\"}")}

SignTimes == {1000, 2000}

SignatureParamsSet == [method : SignMethods, path : SignPaths, body : SignBodies]

Truthy(v) ==
  CASE v.t = "number" -> v.n # 0
    [] v.t = "object" -> TRUE

JSONStringify(v) ==
  CASE v.t = "number" -> ToString(v.n)
    [] v.t = "object" -> "{\"" \o v.key \o "\":\"" \o v.val \o "\"}"

Statuses == {200, 201, 204, 302, 400, 401, 403, 404, 409, 429, 503}

StatusText(status) ==
  CASE status = 200 -> "OK"
    [] status = 201 -> "Created"
    [] status = 204 -> "No Content"
    [] status = 302 -> "Found"
    [] status = 400 -> "Bad Request"
    [] status = 401 -> "Unauthorized"
    [] status = 403 -> "Forbidden"
    [] status = 404 -> "Not Found"
    [] status = 409 -> "Conflict"
    [] status = 429 -> "Too Many Requests"
    [] status = 503 -> "Service Unavailable"

\* Values of the content-type response header (absent, or a tuple of lexemes).
ContentTypes ==
  {None,
   Some(<<"application/json">>),
   Some(<<"application/json", "; charset=utf-8">>),
   Some(<<"text/html">>)}

\* Values of the retry-after response header (absent, or a tuple of characters):
\* empty, delta-seconds, and the start of an HTTP-date.
RetryAfterValues ==
  {None, Some(<<>>), Some(<<"6", "0">>), Some(<<"W", "e", "d">>)}

\* The statuses whose responses carry a retry-after header in the model.
RetryAfterStatuses == {429, 503}

\* What fetch resolves with: status line and headers. The body arrives later.
Responses ==
  {r \in [status : Statuses, statusText : {StatusText(st) : st \in Statuses},
          contentType : ContentTypes, retryAfter : RetryAfterValues] :
     /\ r.statusText = StatusText(r.status)
     /\ r.retryAfter # None => r.status \in RetryAfterStatuses}

JsonNull == [type |-> "null", error |-> None, code |-> None, success |-> None]

JsonObject(error, code) ==
  [type |-> "object", error |-> error, code |-> code, success |-> None]

\* The literal { success: true }.
SuccessTrue == [type |-> "object", error |-> None, code |-> None, success |-> Some(TRUE)]

\* What response.json() settles with: a parse failure, or a parsed value.
ResponseBodies ==
  {[parses |-> FALSE, json |-> JsonNull], [parses |-> TRUE, json |-> JsonNull]}
  \cup {[parses |-> TRUE, json |-> JsonObject(None, None)],
        [parses |-> TRUE, json |-> JsonObject(Some("User not found"), Some("USER_NOT_FOUND"))]}

\* The failures the transport raises: objects of the transport, not of the call.
Raised(e) == [e EXCEPT !.oid = "transport"]

AbortErrorOfSignal == Raised(HostError("DOMException", "AbortError", "This operation was aborted"))

TransportFailures ==
  {Raised(HostError("TypeError", "TypeError", "Failed to fetch")),
   Raised(HostError("Error", "AbortError", "AbortError")),
   Raised(HostError("NonError", "", "boom")),
   Raised(ValidationError("nested 400")),
   Raised(AuthenticationError("nested 401")),
   Raised(AuthorizationError("nested 403")),
   Raised(NotFoundError("nested 404", None)),
   Raised(ConflictError("nested 409", None)),
   Raised(RateLimitError("nested 429", None)),
   Raised(ApiError("API Error", 500, Some("ERROR_CODE"))),
   Raised(NetworkError("nested network", None))}

-----------------------------------------------------------------------------
(* HttpClient.request, the part that runs before fetch is awaited *)

\* options.body ? JSON.stringify(options.body) : undefined
BodyString(options) ==
  IF IsSome(options.body) /\ Truthy(Get(options.body))
  THEN Some(JSONStringify(Get(options.body)))
  ELSE None

\* if (authHeader): undefined and the empty string are falsy.
HasAuthHeader(authHeader) == IsSome(authHeader) /\ Get(authHeader) # ""

\* { ...a, ...b }: the keys of both, b's value where both have the key.
Spread(a, b) ==
  [k \in (DOMAIN a) \cup (DOMAIN b) |-> IF k \in DOMAIN b THEN b[k] ELSE a[k]]

\* The headers object handed to fetch.
BuildHeaders(options, authHeader) ==
  LET headers == Spread([k \in {"Content-Type"} |-> "application/json"], options.headers)
  IN  IF HasAuthHeader(authHeader)
      THEN Spread(headers, [k \in {"Authorization"} |-> Get(authHeader)])
      ELSE headers

\* Mutant of Credentials: tests authHeader !== undefined, so an empty header
\* value counts as one.
CredentialsUnlessDefined(authHeader) == IF IsSome(authHeader) THEN None ELSE Some("include")

\* credentials: authHeader ? undefined : 'include'
Credentials(authHeader) == IF HasAuthHeader(authHeader) THEN None ELSE Some("include")

\* Mutant of SignatureParams: the body is serialized a second time for the
\* signer, from the caller's value alone, so an absent body is signed as "null".
SignatureParamsReserialized(options, bodyString) ==
  [method |-> options.method, path |-> options.path,
   body |-> IF IsSome(bodyString) THEN bodyString ELSE Some("null")]

SignatureParams(options, bodyString) ==
  [method |-> options.method, path |-> options.path, body |-> bodyString]

\* The arguments of the fetch call.
FetchArgs(cfg, options, bodyString, authHeader) ==
  [url         |-> cfg.baseUrl \o options.path,
   method      |-> options.method,
   headers     |-> BuildHeaders(options, authHeader),
   body        |-> bodyString,
   credentials |-> Credentials(authHeader)]

LogRecord(level, message, context) ==
  [level |-> level, message |-> message, context |-> context]

-----------------------------------------------------------------------------
(* HttpClient.handleResponse *)

Resolved(value) == [state |-> "resolved", value |-> Some(value), error |-> None]
Rejected(error) == [state |-> "rejected", value |-> None, error |-> Some(error)]

\* response.ok
IsOk(response) == response.status \in 200..299

\* Mutant of IndicatesJson: contentType === 'application/json'.
IndicatesJsonExactly(contentType) == contentType = Some(<<"application/json">>)

\* contentType?.includes('application/json'), contentType being null when the
\* header is absent.
IndicatesJson(contentType) ==
  IsSome(contentType) /\ Includes(Get(contentType), <<"application/json">>)

\* retryAfter ? parseInt(retryAfter, 10) : undefined, retryAfter being null when
\* the header is absent; the empty string is falsy.
RetryAfterSeconds(retryAfter) ==
  IF IsSome(retryAfter) /\ Get(retryAfter) # <<>>
  THEN Some(ParseInt(Get(retryAfter)))
  ELSE None

\* Mutant of StatusToError: the 403 case throws what the 401 case throws.
StatusToErrorCopiedCase(response, errorBody, message, code) ==
  CASE response.status = 400 -> ValidationError(message)
    [] response.status \in {401, 403} -> AuthenticationError(message)
    [] response.status = 404 -> NotFoundError(message, Some(code))
    [] response.status = 409 -> ConflictError(message, Some(code))
    [] response.status = 429 -> RateLimitError(message, RetryAfterSeconds(response.retryAfter))
    [] OTHER ->
         IF IsSome(errorBody) /\ Get(errorBody).type # "null"
         THEN ApiErrorFromResponse(response.status, Get(errorBody))
         ELSE ApiError(message, response.status, Some(code))

\* The switch on response.status. errorBody is the parsed body, or None when
\* the parse failed.
StatusToError(response, errorBody, message, code) ==
  CASE response.status = 400 -> ValidationError(message)
    [] response.status = 401 -> AuthenticationError(message)
    [] response.status = 403 -> AuthorizationError(message)
    [] response.status = 404 -> NotFoundError(message, Some(code))
    [] response.status = 409 -> ConflictError(message, Some(code))
    [] response.status = 429 -> RateLimitError(message, RetryAfterSeconds(response.retryAfter))
    [] OTHER ->
         IF IsSome(errorBody) /\ Get(errorBody).type # "null"
         THEN ApiErrorFromResponse(response.status, Get(errorBody))
         ELSE ApiError(message, response.status, Some(code))

\* Mutant of HandleResponseHead: the content-type is checked before the 204 case.
HandleResponseHeadTypeFirst(response) ==
  IF IsOk(response)
  THEN IF ~IndicatesJson(response.contentType)
       THEN Some(Rejected(ApiError("Expected JSON response", response.status,
                                   Some("INVALID_RESPONSE"))))
       ELSE IF response.status = 204 THEN Some(Resolved(SuccessTrue))
       ELSE None
  ELSE None

\* handleResponse up to its first await: either it settles without reading the
\* body (outcome is Some), or it calls response.json() (outcome is None).
HandleResponseHead(response) ==
  IF IsOk(response)
  THEN IF response.status = 204 THEN Some(Resolved(SuccessTrue))
       ELSE IF ~IndicatesJson(response.contentType)
       THEN Some(Rejected(ApiError("Expected JSON response", response.status,
                                   Some("INVALID_RESPONSE"))))
       ELSE None
  ELSE None

\* The error response.json() rejects with when the body is no JSON.
JsonSyntaxError == Raised(HostError("SyntaxError", "SyntaxError", "Unexpected token"))

\* handleResponse after response.json() has settled with body.
HandleResponseBody(response, body) ==
  IF IsOk(response)
  THEN IF body.parses THEN Resolved(body.json) ELSE Rejected(JsonSyntaxError)
  ELSE LET errorBody == IF body.parses THEN Some(body.json) ELSE None
           fields    == IF IsSome(errorBody) /\ Get(errorBody).type # "null"
                        THEN Get(errorBody) ELSE JsonNull
           message   == IF IsSome(fields.error) THEN Get(fields.error)
                        ELSE "HTTP " \o ToString(response.status) \o ": " \o response.statusText
           code      == IF IsSome(fields.code) THEN Get(fields.code) ELSE "UNKNOWN_ERROR"
       IN  Rejected(StatusToError(response, errorBody, message, code))

-----------------------------------------------------------------------------
(* HttpClient.request, the catch block *)

\* error instanceof Error && error.name === 'AbortError'
IsAbortError(error) == InstanceOf(error, "Error") /\ error.name = "AbortError"

\* error instanceof NetworkError || error instanceof ApiError
IsRethrown(error) == InstanceOf(error, "NetworkError") \/ InstanceOf(error, "ApiError")

\* error instanceof Error ? error.message : 'Unknown error'
ErrorMessage(error) == IF InstanceOf(error, "Error") THEN error.message ELSE "Unknown error"

\* Mutant of TimeoutError: the message names the default timeout, not the
\* configured one.
TimeoutErrorOfDefault(cfg) == NetworkError("Request timeout after 30000ms", None)

TimeoutError(cfg) ==
  NetworkError("Request timeout after " \o ToString(cfg.timeout) \o "ms", None)

\* Mutant of WrappedError: the cause is not passed on.
WrappedErrorWithoutCause(error) ==
  NetworkError("Network request failed: " \o ErrorMessage(error), None)

WrappedError(error) ==
  NetworkError("Network request failed: " \o ErrorMessage(error),
               IF InstanceOf(error, "Error") THEN Some(error) ELSE None)

\* What the catch block throws for the failure `error` of the awaited fetch.
CatchThrows(cfg, error) ==
  IF IsAbortError(error) THEN TimeoutError(cfg)
  ELSE IF IsRethrown(error) THEN error
  ELSE WrappedError(error)

\* Mutant of CatchLogs: the failure record also carries the caller's headers.
CatchLogsWithHeaders(cfg, options, error) ==
  IF IsAbortError(error)
  THEN <<LogRecord("error", "Request timeout",
                   [method |-> options.method, path |-> options.path,
                    timeoutMs |-> cfg.timeout])>>
  ELSE IF IsRethrown(error) THEN <<>>
  ELSE <<LogRecord("error", "Network request failed",
                   [method |-> options.method, path |-> options.path,
                    headers |-> options.headers,
                    error |-> ErrorMessage(error)])>>

\* What the catch block logs.
CatchLogs(cfg, options, error) ==
  IF IsAbortError(error)
  THEN <<LogRecord("error", "Request timeout",
                   [method |-> options.method, path |-> options.path,
                    timeoutMs |-> cfg.timeout])>>
  ELSE IF IsRethrown(error) THEN <<>>
  ELSE <<LogRecord("error", "Network request failed",
                   [method |-> options.method, path |-> options.path,
                    error |-> ErrorMessage(error)])>>

-----------------------------------------------------------------------------
(* State *)

VARIABLES
  given,        \* the ClientConfig handed to new LdapRestClient; None when the
                \* HttpClient (or the HmacAuth) was constructed directly
  client,       \* how far construction got: state "new", "built" or "threw",
                \* and the message of the error thrown
  called,       \* per call: the convenience method it was made through and its
                \* arguments; None for a direct call of request or sign
  config,       \* HttpClient.config: baseUrl and timeout, set by the constructor
  auth,         \* HttpClient.auth: the signer, or None
  pc,           \* per call: "idle", "fetching" (await fetch), "reading" (await
                \* response.json()), "done" (the promise of request has settled)
  options,      \* per call: the RequestOptions it was called with
  signed,       \* per call: the SignatureParams handed to auth.sign, if any
  authHeader,   \* per call: what auth?.sign returned
  clock,        \* per call: the readings of Date.now() its signing took, in order
  sent,         \* per call: the arguments of its fetch call
  timer,        \* per call: "unset", "armed" or "cleared" (setTimeout / clearTimeout)
  aborted,      \* per call: controller.signal.aborted (the timer callback ran)
  failure,      \* per call: what the awaited fetch rejected with
  response,     \* per call: what the awaited fetch resolved with
  bodyUsed,     \* per call: response.json() was called
  body,         \* per call: what response.json() settled with
  outcome,      \* per call: how the promise returned by request settled
  log           \* per call: the records passed to the logger, in order

clientVars == <<given, client, config, auth>>
requestVars == <<options, signed, authHeader, clock, sent>>
responseVars == <<response, bodyUsed, body>>
vars == <<given, client, called, config, auth, pc, options, signed, authHeader, clock, sent,
          timer, aborted, failure, response, bodyUsed, body, outcome, log>>

NoOptions == [method |-> "", path |-> "", body |-> None, headers |-> <<>>]

\* No call has been made.
NoCalls ==
  /\ called = [c \in Calls |-> None]
  /\ pc = [c \in Calls |-> "idle"]
  /\ options = [c \in Calls |-> NoOptions]
  /\ signed = [c \in Calls |-> None]
  /\ authHeader = [c \in Calls |-> None]
  /\ clock = [c \in Calls |-> <<>>]
  /\ sent = [c \in Calls |-> None]
  /\ timer = [c \in Calls |-> "unset"]
  /\ aborted = [c \in Calls |-> FALSE]
  /\ failure = [c \in Calls |-> None]
  /\ response = [c \in Calls |-> None]
  /\ bodyUsed = [c \in Calls |-> FALSE]
  /\ body = [c \in Calls |-> None]
  /\ outcome = [c \in Calls |-> None]
  /\ log = [c \in Calls |-> <<>>]

Built == [state |-> "built", error |-> None, log |-> <<>>]

\* An HttpClient constructed with a configuration and a signer.
Init ==
  /\ given = None
  /\ client = Built
  /\ config \in Configs
  /\ auth \in Signers
  /\ NoCalls

-----------------------------------------------------------------------------
(* Actions *)

\* Mutant of Request: the built headers are written into the caller's headers
\* object instead of a fresh one.
RequestMutatingHeaders(c, o, now) ==
  LET bodyString == BodyString(o)
      header     == AuthSign(auth, SignatureParams(o, bodyString), now)
  IN  /\ client.state = "built"
      /\ pc[c] = "idle"
      /\ options' = [options EXCEPT ![c] =
                       [o EXCEPT !.headers = BuildHeaders(o, header)]]
      /\ log' = [log EXCEPT ![c] =
                   <<LogRecord("debug", "Sending request",
                               [method |-> o.method, url |-> config.baseUrl \o o.path,
                                hasBody |-> IsSome(bodyString) /\ Get(bodyString) # ""])>>]
      /\ signed' = [signed EXCEPT ![c] =
                      IF auth = None THEN None ELSE Some(SignatureParams(o, bodyString))]
      /\ authHeader' = [authHeader EXCEPT ![c] = header]
      /\ clock' = [clock EXCEPT ![c] = ClockReadings(auth, now)]
      /\ timer' = [timer EXCEPT ![c] = "armed"]
      /\ sent' = [sent EXCEPT ![c] = Some(FetchArgs(config, o, bodyString, header))]
      /\ pc' = [pc EXCEPT ![c] = "fetching"]
      /\ UNCHANGED <<clientVars, aborted, failure, responseVars, outcome>>

\* request(o), from its entry to `await fetch(...)`: serialize, log, sign, build
\* the headers, arm the timer and call fetch. now is the reading of Date.now()
\* an HmacAuth takes.
Request(c, o, now) ==
  LET bodyString == BodyString(o)
      header     == AuthSign(auth, SignatureParams(o, bodyString), now)
  IN  /\ client.state = "built"
      /\ pc[c] = "idle"
      /\ options' = [options EXCEPT ![c] = o]
      /\ log' = [log EXCEPT ![c] =
                   <<LogRecord("debug", "Sending request",
                               [method |-> o.method, url |-> config.baseUrl \o o.path,
                                hasBody |-> IsSome(bodyString) /\ Get(bodyString) # ""])>>]
      /\ signed' = [signed EXCEPT ![c] =
                      IF auth = None THEN None ELSE Some(SignatureParams(o, bodyString))]
      /\ authHeader' = [authHeader EXCEPT ![c] = header]
      /\ clock' = [clock EXCEPT ![c] = ClockReadings(auth, now)]
      /\ timer' = [timer EXCEPT ![c] = "armed"]
      /\ sent' = [sent EXCEPT ![c] = Some(FetchArgs(config, o, bodyString, header))]
      /\ pc' = [pc EXCEPT ![c] = "fetching"]
      /\ UNCHANGED <<clientVars, aborted, failure, responseVars, outcome>>

\* Mutant of FetchResolved: clearTimeout is not called when the response
\* arrives, so the timer stays armed.
FetchResolvedKeepingTimer(c, r) ==
  LET head == HandleResponseHead(r)
  IN  /\ pc[c] = "fetching"
      /\ response' = [response EXCEPT ![c] = Some(r)]
      /\ log' = [log EXCEPT ![c] =
                   Append(@, LogRecord("info", "Request completed",
                                       [method |-> options[c].method,
                                        path |-> options[c].path, status |-> r.status]))]
      /\ bodyUsed' = [bodyUsed EXCEPT ![c] = (head = None)]
      /\ outcome' = [outcome EXCEPT ![c] = head]
      /\ pc' = [pc EXCEPT ![c] = IF head = None THEN "reading" ELSE "done"]
      /\ UNCHANGED <<clientVars, called, requestVars, timer, aborted, failure, body>>

\* Mutant of FetchResolved: the info record is left out.
FetchResolvedUnlogged(c, r) ==
  LET head == HandleResponseHead(r)
  IN  /\ pc[c] = "fetching"
      /\ response' = [response EXCEPT ![c] = Some(r)]
      /\ timer' = [timer EXCEPT ![c] = "cleared"]
      /\ bodyUsed' = [bodyUsed EXCEPT ![c] = (head = None)]
      /\ outcome' = [outcome EXCEPT ![c] = head]
      /\ pc' = [pc EXCEPT ![c] = IF head = None THEN "reading" ELSE "done"]
      /\ UNCHANGED <<clientVars, called, requestVars, aborted, failure, body, log>>

\* fetch resolves with the response r (status line and headers) and request
\* resumes: clearTimeout, the info record, then handleResponse up to its first
\* await. Its promise is returned without await, so whatever handleResponse
\* settles with is what request settles with.
FetchResolved(c, r) ==
  LET head == HandleResponseHead(r)
  IN  /\ pc[c] = "fetching"
      /\ response' = [response EXCEPT ![c] = Some(r)]
      /\ timer' = [timer EXCEPT ![c] = "cleared"]
      /\ log' = [log EXCEPT ![c] =
                   Append(@, LogRecord("info", "Request completed",
                                       [method |-> options[c].method,
                                        path |-> options[c].path, status |-> r.status]))]
      /\ bodyUsed' = [bodyUsed EXCEPT ![c] = (head = None)]
      /\ outcome' = [outcome EXCEPT ![c] = head]
      /\ pc' = [pc EXCEPT ![c] = IF head = None THEN "reading" ELSE "done"]
      /\ UNCHANGED <<clientVars, called, requestVars, aborted, failure, body>>

\* response.json() settles with b and handleResponse runs to its end.
BodyRead(c, b) ==
  /\ pc[c] = "reading"
  /\ body' = [body EXCEPT ![c] = Some(b)]
  /\ outcome' = [outcome EXCEPT ![c] = Some(HandleResponseBody(Get(response[c]), b))]
  /\ pc' = [pc EXCEPT ![c] = "done"]
  /\ UNCHANGED <<clientVars, called, requestVars, timer, aborted, failure, response,
                 bodyUsed, log>>

\* The catch block of request, run for the rejection e of the awaited fetch.
Catch(c, e) ==
  /\ failure' = [failure EXCEPT ![c] = Some(e)]
  /\ timer' = [timer EXCEPT ![c] = "cleared"]
  /\ log' = [log EXCEPT ![c] = @ \o CatchLogs(config, options[c], e)]
  /\ outcome' = [outcome EXCEPT ![c] = Some(Rejected(CatchThrows(config, e)))]
  /\ pc' = [pc EXCEPT ![c] = "done"]

\* Mutant of FetchRejected: the failure is recorded and the fetch is issued
\* again instead of running the catch block.
FetchRejectedRetrying(c, e) ==
  /\ pc[c] = "fetching"
  /\ failure' = [failure EXCEPT ![c] = Some(e)]
  /\ UNCHANGED <<clientVars, called, requestVars, timer, aborted, responseVars,
                 outcome, log, pc>>

\* The transport rejects the fetch with e before the timer fires.
FetchRejected(c, e) ==
  /\ pc[c] = "fetching"
  /\ Catch(c, e)
  /\ UNCHANGED <<clientVars, called, requestVars, aborted, responseVars>>

\* Mutant of TimerFired: one controller is shared by the client, so the abort
\* is seen by every call that is in flight.
TimerFiredShared(c) ==
  /\ pc[c] = "fetching"
  /\ timer[c] = "armed"
  /\ aborted' = [d \in Calls |-> aborted[d] \/ pc[d] = "fetching"]
  /\ failure' = [d \in Calls |->
                   IF pc[d] = "fetching" THEN Some(AbortErrorOfSignal) ELSE failure[d]]
  /\ timer' = [d \in Calls |-> IF pc[d] = "fetching" THEN "cleared" ELSE timer[d]]
  /\ log' = [d \in Calls |->
               IF pc[d] = "fetching"
               THEN log[d] \o CatchLogs(config, options[d], AbortErrorOfSignal)
               ELSE log[d]]
  /\ outcome' = [d \in Calls |->
                   IF pc[d] = "fetching"
                   THEN Some(Rejected(CatchThrows(config, AbortErrorOfSignal)))
                   ELSE outcome[d]]
  /\ pc' = [d \in Calls |-> IF pc[d] = "fetching" THEN "done" ELSE pc[d]]
  /\ UNCHANGED <<clientVars, called, requestVars, responseVars>>

\* The timer fires while fetch is pending: its callback aborts the controller,
\* which rejects the fetch with the signal's AbortError, and request resumes in
\* its catch block.
TimerFired(c) ==
  /\ pc[c] = "fetching"
  /\ timer[c] = "armed"
  /\ aborted' = [aborted EXCEPT ![c] = TRUE]
  /\ Catch(c, AbortErrorOfSignal)
  /\ UNCHANGED <<clientVars, called, requestVars, responseVars>>

\* The caller has taken the outcome; the call's frame is gone and the slot can
\* serve a new call.
Return(c) ==
  /\ pc[c] = "done"
  /\ pc' = [pc EXCEPT ![c] = "idle"]
  /\ called' = [called EXCEPT ![c] = None]
  /\ options' = [options EXCEPT ![c] = NoOptions]
  /\ signed' = [signed EXCEPT ![c] = None]
  /\ authHeader' = [authHeader EXCEPT ![c] = None]
  /\ clock' = [clock EXCEPT ![c] = <<>>]
  /\ sent' = [sent EXCEPT ![c] = None]
  /\ timer' = [timer EXCEPT ![c] = "unset"]
  /\ aborted' = [aborted EXCEPT ![c] = FALSE]
  /\ failure' = [failure EXCEPT ![c] = None]
  /\ response' = [response EXCEPT ![c] = None]
  /\ bodyUsed' = [bodyUsed EXCEPT ![c] = FALSE]
  /\ body' = [body EXCEPT ![c] = None]
  /\ outcome' = [outcome EXCEPT ![c] = None]
  /\ log' = [log EXCEPT ![c] = <<>>]
  /\ UNCHANGED clientVars

\* A call made while no other call of the client is in flight.
RequestAlone(c) ==
  /\ \A d \in Calls \ {c} : pc[d] = "idle"
  /\ \E o \in RequestOptionsSet, now \in Times : Request(c, o, now)
  /\ UNCHANGED called

Next ==
  \E c \in Calls :
    \/ RequestAlone(c)
    \/ \E r \in Responses : FetchResolved(c, r)
    \/ \E b \in ResponseBodies : BodyRead(c, b)
    \/ \E e \in TransportFailures : FetchRejected(c, e)
    \/ TimerFired(c)
    \/ Return(c)

\* One call at a time on the client.
Spec == Init /\ [][Next]_vars

\* The same calls, with the one scheduling guarantee the host gives: an armed
\* timer whose delay has elapsed runs its callback. Nothing obliges the
\* transport to deliver a response, a failure or a body.
FairSpec == Spec /\ \A c \in Calls : WF_vars(TimerFired(c))

-----------------------------------------------------------------------------
(* The convenience methods of HttpClient *)

\* The timer fires while fetch is pending and its callback aborts the
\* controller, on a transport that does not settle the fetch on the abort:
\* request stays suspended at its await, which is all the callback leaves it
\* to do, and the fetch settles later, or never, as the transport chooses.
TimerFiredUnheeded(c) ==
  /\ pc[c] = "fetching"
  /\ timer[c] = "armed"
  /\ aborted' = [aborted EXCEPT ![c] = TRUE]
  /\ timer' = [timer EXCEPT ![c] = "fired"]
  /\ UNCHANGED <<clientVars, called, requestVars, failure, responseVars, outcome, log, pc>>

AnyTransportNext ==
  \E c \in Calls :
    \/ RequestAlone(c)
    \/ \E r \in Responses : FetchResolved(c, r)
    \/ \E b \in ResponseBodies : BodyRead(c, b)
    \/ \E e \in TransportFailures \cup {AbortErrorOfSignal} : FetchRejected(c, e)
    \/ TimerFired(c)
    \/ TimerFiredUnheeded(c)
    \/ Return(c)

\* One call at a time, on any transport: one that rejects an aborted fetch at
\* once, and one that resolves it, rejects it with another failure, or leaves
\* it pending.
AnyTransportSpec == Init /\ [][AnyTransportNext]_vars

\* A call that threw before returning a promise.
Thrown(error) == [state |-> "thrown", value |-> None, error |-> Some(error)]

CallRecord(verb, path, reqBody, headers) ==
  [verb |-> verb, path |-> path, body |-> reqBody, headers |-> headers]

\* http.get(path, headers)
HttpGet(c, path, headers, now) ==
  /\ called' = [called EXCEPT ![c] = Some(CallRecord("get", path, None, headers))]
  /\ Request(c, [method |-> "GET", path |-> path, body |-> None, headers |-> headers], now)

\* http.post(path, body, headers)
HttpPost(c, path, reqBody, headers, now) ==
  /\ called' = [called EXCEPT ![c] = Some(CallRecord("post", path, reqBody, headers))]
  /\ Request(c, [method |-> "POST", path |-> path, body |-> reqBody, headers |-> headers], now)

\* http.patch(path, body, headers)
HttpPatch(c, path, reqBody, headers, now) ==
  /\ called' = [called EXCEPT ![c] = Some(CallRecord("patch", path, reqBody, headers))]
  /\ Request(c, [method |-> "PATCH", path |-> path, body |-> reqBody, headers |-> headers], now)

\* http.delete(path, headers)
HttpDelete(c, path, headers, now) ==
  /\ called' = [called EXCEPT ![c] = Some(CallRecord("delete", path, None, headers))]
  /\ Request(c, [method |-> "DELETE", path |-> path, body |-> None, headers |-> headers], now)

\* http.put(path, body, headers): HttpClient has no member put, so the call
\* expression throws a TypeError; request is not entered and nothing is sent.
HttpPut(c, path, reqBody, headers) ==
  /\ client.state = "built"
  /\ pc[c] = "idle"
  /\ called' = [called EXCEPT ![c] = Some(CallRecord("put", path, reqBody, headers))]
  /\ outcome' = [outcome EXCEPT ![c] =
                   Some(Thrown(HostError("TypeError", "TypeError",
                                         "this.http.put is not a function")))]
  /\ pc' = [pc EXCEPT ![c] = "done"]
  /\ UNCHANGED <<clientVars, requestVars, timer, aborted, failure, responseVars, log>>

\* A call through a convenience method, made while no other call of the
\* client is in flight.
ConvenienceAlone(c) ==
  /\ \A d \in Calls \ {c} : pc[d] = "idle"
  /\ \E path \in Paths, reqBody \in RequestBodies, headers \in RequestHeaders, now \in Times :
       \/ reqBody = None /\ HttpGet(c, path, headers, now)
       \/ HttpPost(c, path, reqBody, headers, now)
       \/ HttpPut(c, path, reqBody, headers)
       \/ HttpPatch(c, path, reqBody, headers, now)
       \/ reqBody = None /\ HttpDelete(c, path, headers, now)

ConvenienceNext ==
  \E c \in Calls :
    \/ ConvenienceAlone(c)
    \/ \E r \in Responses : FetchResolved(c, r)
    \/ \E b \in ResponseBodies : BodyRead(c, b)
    \/ \E e \in TransportFailures : FetchRejected(c, e)
    \/ TimerFired(c)
    \/ Return(c)

\* The calls the resources make: every call goes through a convenience method.
ConvenienceSpec == Init /\ [][ConvenienceNext]_vars

-----------------------------------------------------------------------------
(* new LdapRestClient(config): config/ClientConfig.ts, LdapRestClient.ts *)

\* Numbers of the host language that a timeout can be.
Num(n) == [t |-> "number", n |-> n]
NaN == [t |-> "NaN", n |-> 0]
Infinity == [t |-> "Infinity", n |-> 0]

\* Number.isFinite(v)
NumberIsFinite(v) == v.t = "number"

\* v <= 0: false for NaN and for Infinity.
LessOrEqualZero(v) == v.t = "number" /\ v.n <= 0

\* The integer a finite number is.
NumberValue(v) == CASE v.t = "number" -> v.n

BaseUrls == {"", " ", "not-a-url", "https://api.example.com", "https://api.example.com/"}

\* The strings s of BaseUrls for which new URL(s) does not throw.
IsValidUrl(s) == s \in {"https://api.example.com", "https://api.example.com/"}

\* s.replace(/\/$/, ''), on the strings of BaseUrls.
RemoveTrailingSlash(s) ==
  CASE s = "https://api.example.com/" -> "https://api.example.com"
    [] OTHER -> s

CookieAuthConfig == [type |-> "cookie"]

\* ClientConfig.auth: omitted, cookie, or hmac with each of an empty, a blank
\* and a proper serviceId and secret.
AuthConfigs ==
  {None, Some(CookieAuthConfig)}
  \cup {Some([type |-> "hmac", serviceId |-> i, secret |-> k]) :
          i \in {"", " ", "svc"}, k \in {"", " ", "s3cret"}}

\* ClientConfig.timeout: omitted, positive, zero, negative, NaN, Infinity.
ClientTimeouts == {None, Some(Num(5000)), Some(Num(0)), Some(Num(-1)), Some(NaN), Some(Infinity)}

ClientConfigs == [baseUrl : BaseUrls, auth : AuthConfigs, timeout : ClientTimeouts]

\* !s || s.trim().length === 0
IsMissing(s) == s = "" \/ s \in BlankStrings

\* Mutant of Validate: the secret is tested for emptiness only, not trimmed.
ValidateSecretUntrimmed(cfg) ==
  IF IsMissing(cfg.baseUrl) THEN Some("baseUrl is required")
  ELSE IF cfg.auth # None /\ Get(cfg.auth).type = "hmac" /\ IsMissing(Get(cfg.auth).serviceId)
  THEN Some("serviceId is required for HMAC authentication")
  ELSE IF cfg.auth # None /\ Get(cfg.auth).type = "hmac" /\ Get(cfg.auth).secret = ""
  THEN Some("secret is required for HMAC authentication")
  ELSE IF ~IsValidUrl(cfg.baseUrl) THEN Some("baseUrl must be a valid URL")
  ELSE IF cfg.timeout # None
          /\ (LessOrEqualZero(Get(cfg.timeout)) \/ ~NumberIsFinite(Get(cfg.timeout)))
  THEN Some("timeout must be a positive number")
  ELSE None

\* ConfigValidator.validate: the message of the Error it throws, or None when
\* it returns.
Validate(cfg) ==
  IF IsMissing(cfg.baseUrl) THEN Some("baseUrl is required")
  ELSE IF cfg.auth # None /\ Get(cfg.auth).type = "hmac" /\ IsMissing(Get(cfg.auth).serviceId)
  THEN Some("serviceId is required for HMAC authentication")
  ELSE IF cfg.auth # None /\ Get(cfg.auth).type = "hmac" /\ IsMissing(Get(cfg.auth).secret)
  THEN Some("secret is required for HMAC authentication")
  ELSE IF ~IsValidUrl(cfg.baseUrl) THEN Some("baseUrl must be a valid URL")
  ELSE IF cfg.timeout # None
          /\ (LessOrEqualZero(Get(cfg.timeout)) \/ ~NumberIsFinite(Get(cfg.timeout)))
  THEN Some("timeout must be a positive number")
  ELSE None

\* ConfigValidator.normalize
Normalize(cfg) ==
  [baseUrl |-> RemoveTrailingSlash(cfg.baseUrl),
   auth    |-> IF cfg.auth = None THEN CookieAuthConfig ELSE Get(cfg.auth),
   timeout |-> IF cfg.timeout = None THEN Num(30000) ELSE Get(cfg.timeout)]

\* ConfigValidator.toHttpConfig
ToHttpConfig(normalized) ==
  [baseUrl |-> normalized.baseUrl, timeout |-> NumberValue(normalized.timeout)]

\* new LdapRestClient(cfg) has been called and its constructor has not run yet.
ConstructInit ==
  /\ given \in {Some(cfg) : cfg \in ClientConfigs}
  /\ client = [state |-> "new", error |-> None, log |-> <<>>]
  /\ config = None
  /\ auth = None
  /\ NoCalls

\* The constructor: validate throws, or the configuration is normalized, an
\* HmacAuth is made in hmac mode and the HttpClient is constructed.
Construct ==
  LET error      == Validate(Get(given))
      normalized == Normalize(Get(given))
  IN  /\ client.state = "new"
      /\ IF error # None
         THEN /\ client' = [state |-> "threw", error |-> error, log |-> <<>>]
              /\ UNCHANGED <<config, auth>>
         ELSE /\ client' = [Built EXCEPT !.log =
                              <<LogRecord("info", "Initializing LDAP-REST client",
                                          [baseUrl  |-> normalized.baseUrl,
                                           authType |-> normalized.auth.type])>>]
              /\ config' = ToHttpConfig(normalized)
              /\ auth' = IF normalized.auth.type = "hmac" THEN Some(normalized.auth) ELSE None
      /\ UNCHANGED <<given, called, pc, requestVars, timer, aborted, failure, responseVars,
                     outcome, log>>

ConstructNext == Construct \/ Next

\* A client constructed from a ClientConfig, and the calls made on it.
ConstructSpec == ConstructInit /\ [][ConstructNext]_vars

-----------------------------------------------------------------------------
(* HmacAuth.sign called directly *)

-----------------------------------------------------------------------------
(* Calls in flight together on one client *)

\* Valid configurations: cookie mode, and hmac mode with each of two secrets.
ConcurrentConfigs ==
  {[baseUrl |-> "https://api.example.com/", auth |-> a, timeout |-> Some(Num(5000))] :
     a \in {None,
            Some([type |-> "hmac", serviceId |-> "svc", secret |-> "s3cret"]),
            Some([type |-> "hmac", serviceId |-> "svc", secret |-> "0ther"])}}

\* POST requests that differ in the content of the body and in the value of a
\* header.
ConcurrentOptions ==
  [method  : {"POST"},
   path    : Paths,
   body    : {Some([t |-> "object", key |-> "cn", val |-> v]) : v \in {"a", "b"}},
   headers : {[x \in {"X-Request-Id"} |-> v] : v \in {"42", "43"}}]

ConcurrentResponses ==
  {r \in Responses : /\ r.status \in {200, 204, 404}
                     /\ r.contentType = Some(<<"application/json">>)
                     /\ r.retryAfter = None}

ConcurrentResponseBodies ==
  {[parses |-> TRUE, json |-> JsonObject(Some("User not found"), Some("USER_NOT_FOUND"))]}

ConcurrentFailures == {Raised(HostError("TypeError", "TypeError", "Failed to fetch"))}

ConcurrentInit ==
  /\ given \in {Some(cfg) : cfg \in ConcurrentConfigs}
  /\ client = [state |-> "new", error |-> None, log |-> <<>>]
  /\ config = None
  /\ auth = None
  /\ NoCalls

\* request is called while other calls may be in flight.
RequestAmongOthers(c) ==
  /\ \E o \in ConcurrentOptions, now \in Times : Request(c, o, now)
  /\ UNCHANGED called

ConcurrentNext ==
  \/ Construct
  \/ \E c \in Calls :
       \/ RequestAmongOthers(c)
       \/ \E r \in ConcurrentResponses : FetchResolved(c, r)
       \/ \E b \in ConcurrentResponseBodies : BodyRead(c, b)
       \/ \E e \in ConcurrentFailures : FetchRejected(c, e)
       \/ TimerFired(c)
       \/ Return(c)

\* A client constructed from a ClientConfig and any interleaving of the steps
\* of the calls made on it.
ConcurrentSpec == ConcurrentInit /\ [][ConcurrentNext]_vars

\* An HmacAuth constructed on its own: there is no HttpClient.
SignInit ==
  /\ given = None
  /\ client = Built
  /\ config = None
  /\ auth \in SignSigners
  /\ NoCalls

\* auth.sign(params); now is the reading of Date.now() it takes. Results are
\* compared two by two: the caller keeps at most one earlier result when it
\* signs again.
Sign(c, params, now) ==
  /\ client.state = "built"
  /\ auth # None
  /\ pc[c] = "idle"
  /\ signed[c] = None
  /\ \A d, e \in Calls : signed[d] # None /\ signed[e] # None => d = e
  /\ signed' = [signed EXCEPT ![c] = Some(params)]
  /\ authHeader' = [authHeader EXCEPT ![c] = AuthSign(auth, params, now)]
  /\ clock' = [clock EXCEPT ![c] = ClockReadings(auth, now)]
  /\ UNCHANGED <<clientVars, called, pc, options, sent, timer, aborted, failure,
                 responseVars, outcome, log>>

\* The caller drops the result of a sign call.
SignReturn(c) ==
  /\ pc[c] = "idle"
  /\ signed[c] # None
  /\ signed' = [signed EXCEPT ![c] = None]
  /\ authHeader' = [authHeader EXCEPT ![c] = None]
  /\ clock' = [clock EXCEPT ![c] = <<>>]
  /\ UNCHANGED <<clientVars, called, pc, options, sent, timer, aborted, failure,
                 responseVars, outcome, log>>

SignNext ==
  \E c \in Calls :
    \/ \E params \in SignatureParamsSet, now \in SignTimes : Sign(c, params, now)
    \/ SignReturn(c)

SignSpec == SignInit /\ [][SignNext]_vars

-----------------------------------------------------------------------------
(* Properties *)

Done(c) == pc[c] = "done"
IsRejected(c) == Done(c) /\ outcome[c] # None /\ Get(outcome[c]).state = "rejected"
IsResolved(c) == Done(c) /\ outcome[c] # None /\ Get(outcome[c]).state = "resolved"
ErrorOf(c) == Get(Get(outcome[c]).error)
ValueOf(c) == Get(Get(outcome[c]).value)
Responded(c) == response[c] # None
ResponseOf(c) == Get(response[c])
Failed(c) == failure[c] # None
FailureOf(c) == Get(failure[c])

\* C1: every request call that fails rejects with an error of the taxonomy
\* (Validation, Authentication, Authorization, NotFound, Conflict, RateLimit,
\* Api, Network), whatever the transport and the response did, and no failure
\* is swallowed: a transport failure or a non-2xx response never resolves.
C1_EveryFailureIsOfTheTaxonomy ==
  \A c \in Calls :
    /\ IsRejected(c) => ErrorOf(c).class \in Taxonomy
    /\ Done(c) /\ (Failed(c) \/ (Responded(c) /\ ~IsOk(ResponseOf(c)))) => IsRejected(c)

\* The variant the claim C2 fixes for each status that is not 2xx.
VariantOfStatus(status) ==
  CASE status = 400 -> "ValidationError"
    [] status = 401 -> "AuthenticationError"
    [] status = 403 -> "AuthorizationError"
    [] status = 404 -> "NotFoundError"
    [] status = 409 -> "ConflictError"
    [] status = 429 -> "RateLimitError"
    [] OTHER        -> "ApiError"

\* C2: for every response whose status is not 2xx, the call rejects with the
\* variant fixed by the status alone (400 Validation, 401 Authentication, 403
\* Authorization, 404 NotFound, 409 Conflict, 429 RateLimit, anything else Api),
\* and the error's statusCode is the response status, whatever the body is.
C2_StatusFixesVariant ==
  \A c \in Calls :
    Done(c) /\ Responded(c) /\ ~IsOk(ResponseOf(c)) =>
      /\ IsRejected(c)
      /\ ErrorOf(c).class = VariantOfStatus(ResponseOf(c).status)
      /\ ErrorOf(c).statusCode = Some(ResponseOf(c).status)

C2_Witness ==
  \E c \in Calls :
    /\ Done(c) /\ Responded(c) /\ ResponseOf(c).status = 503
    /\ body[c] # None /\ Get(body[c]).parses /\ Get(body[c]).json.code # None
    /\ IsRejected(c) /\ ErrorOf(c).class = "ApiError"

HeadersOf(c) == Get(sent[c]).headers

\* C3 as stated: without a Signer the outgoing request carries no Authorization
\* header and credentials 'include'; with a Signer it carries an Authorization
\* header equal to the Signer's output and no credentials request; for every
\* caller-supplied header set.
C3_ModeFixedBySigner ==
  \A c \in Calls :
    sent[c] # None =>
      IF auth = None
      THEN /\ "Authorization" \notin DOMAIN HeadersOf(c)
           /\ Get(sent[c]).credentials = Some("include")
      ELSE /\ "Authorization" \in DOMAIN HeadersOf(c)
           /\ Some(HeadersOf(c)["Authorization"]) = authHeader[c]
           /\ Get(sent[c]).credentials = None

\* C3 amended: when the Signer returned a non-empty value, the request carries
\* an Authorization header equal to it and credentials are not requested; when
\* there is no Signer, or the Signer returned the empty string, the pipeline
\* adds no Authorization header (the request carries one only if the caller
\* supplied it, with the caller's value) and credentials 'include' is requested.
\* Without a Signer there is no Signer output.
C3_ModeFixedBySignerOutput ==
  \A c \in Calls :
    sent[c] # None =>
      /\ auth = None => authHeader[c] = None
      /\ IF authHeader[c] # None /\ Get(authHeader[c]) # ""
         THEN /\ "Authorization" \in DOMAIN HeadersOf(c)
              /\ HeadersOf(c)["Authorization"] = Get(authHeader[c])
              /\ Get(sent[c]).credentials = None
         ELSE /\ Get(sent[c]).credentials = Some("include")
              /\ "Authorization" \in DOMAIN HeadersOf(c) =>
                   /\ "Authorization" \in DOMAIN options[c].headers
                   /\ HeadersOf(c)["Authorization"] = options[c].headers["Authorization"]

C3_Witness ==
  \E c \in Calls :
    /\ sent[c] # None /\ auth = None
    /\ "Authorization" \in DOMAIN options[c].headers
    /\ "Authorization" \in DOMAIN HeadersOf(c)
    /\ Get(sent[c]).credentials = Some("include")

\* C4: a call whose timer fires while its fetch is pending has the fetch
\* aborted and rejects with a NetworkError whose message is exactly
\* "Request timeout after {T}ms", T the configured timeout, and whose
\* statusCode is absent.
C4_TimeoutRejectsWithNetworkError ==
  \A c \in Calls :
    aborted[c] =>
      /\ Failed(c) /\ FailureOf(c) = AbortErrorOfSignal
      /\ IsRejected(c)
      /\ ErrorOf(c).class = "NetworkError"
      /\ ErrorOf(c).message = "Request timeout after " \o ToString(config.timeout) \o "ms"
      /\ ErrorOf(c).statusCode = None

C4_Witness ==
  \E c \in Calls :
    /\ aborted[c] /\ IsRejected(c) /\ config.timeout = 5000
    /\ ErrorOf(c).message = "Request timeout after 5000ms"

\* C5: every call eventually settles provided only that its timer eventually
\* fires, without depending on the transport ever completing, also when the
\* status and headers have arrived but the body never does.
C5_EveryCallSettles ==
  \A c \in Calls : (pc[c] \in {"fetching", "reading"}) ~> (pc[c] = "done")

\* C6: a transport failure that is already an error of the taxonomy is what
\* the call rejects with: the very same object, never wrapped.
C6_TaxonomyErrorsAreRethrown ==
  \A c \in Calls :
    Done(c) /\ Failed(c) /\ FailureOf(c).class \in Taxonomy =>
      IsRejected(c) /\ ErrorOf(c) = FailureOf(c)

\* C7 as stated: any transport failure that is neither the timeout cancellation
\* (an Error named AbortError) nor a taxonomy error makes the call reject with a NetworkError whose message
\* is "Network request failed: {original message}", whose cause is the original
\* failure and whose statusCode is absent.
C7_OtherFailuresAreWrapped ==
  \A c \in Calls :
    Done(c) /\ Failed(c) /\ FailureOf(c).class \notin Taxonomy
      /\ ~(FailureOf(c).class # "NonError" /\ FailureOf(c).name = "AbortError") =>
      /\ IsRejected(c)
      /\ ErrorOf(c).class = "NetworkError"
      /\ ErrorOf(c).message = "Network request failed: " \o FailureOf(c).message
      /\ ErrorOf(c).cause = Some(FailureOf(c))
      /\ ErrorOf(c).statusCode = None

\* C7 amended: a transport failure that is an Error, is not named AbortError
\* and is no taxonomy error makes the call reject with a NetworkError whose
\* message is "Network request failed: {original message}", whose cause is the
\* original failure and whose statusCode is absent; a failure that is no Error
\* gives the message "Network request failed: Unknown error" and no cause.
C7_OtherErrorsAreWrapped ==
  \A c \in Calls :
    Done(c) /\ Failed(c) /\ FailureOf(c).class \notin Taxonomy
      /\ ~(FailureOf(c).class # "NonError" /\ FailureOf(c).name = "AbortError") =>
        /\ IsRejected(c)
        /\ ErrorOf(c).class = "NetworkError"
        /\ ErrorOf(c).statusCode = None
        /\ IF FailureOf(c).class # "NonError"
           THEN /\ ErrorOf(c).message = "Network request failed: " \o FailureOf(c).message
                /\ ErrorOf(c).cause = Some(FailureOf(c))
           ELSE /\ ErrorOf(c).message = "Network request failed: Unknown error"
                /\ ErrorOf(c).cause = None

C7_Witness ==
  \E c \in Calls :
    /\ Done(c) /\ Failed(c) /\ FailureOf(c).class = "TypeError"
    /\ IsRejected(c) /\ ErrorOf(c).cause = Some(FailureOf(c))
    /\ ErrorOf(c).message = "Network request failed: Failed to fetch"

\* C8: for every response with status 204, whatever its headers, the call
\* resolves with {success: true} and the body is never read or parsed.
C8_NoContentResolvesWithoutBody ==
  \A c \in Calls :
    Responded(c) /\ ResponseOf(c).status = 204 =>
      /\ IsResolved(c) /\ ValueOf(c) = SuccessTrue
      /\ ~bodyUsed[c] /\ body[c] = None

C8_Witness ==
  \E c \in Calls :
    /\ Responded(c) /\ ResponseOf(c).status = 204
    /\ ResponseOf(c).contentType = Some(<<"text/html">>)
    /\ IsResolved(c)

\* The content-type values of the model that indicate JSON.
JsonContentTypes ==
  {Some(<<"application/json">>), Some(<<"application/json", "; charset=utf-8">>)}

\* C9: for every 2xx response other than 204 whose content-type does not
\* indicate JSON (absent or another type) the call rejects with an Api error
\* with code INVALID_RESPONSE, message "Expected JSON response" and statusCode
\* the response status, and the body is not read; when the content-type
\* indicates JSON the parsed body is the result.
C9_SuccessRequiresJson ==
  \A c \in Calls :
    Responded(c) /\ IsOk(ResponseOf(c)) /\ ResponseOf(c).status # 204 =>
      IF ResponseOf(c).contentType \in JsonContentTypes
      THEN /\ bodyUsed[c]
           /\ Done(c) /\ Get(body[c]).parses =>
                IsResolved(c) /\ ValueOf(c) = Get(body[c]).json
      ELSE /\ IsRejected(c)
           /\ ErrorOf(c).class = "ApiError"
           /\ ErrorOf(c).code = Some("INVALID_RESPONSE")
           /\ ErrorOf(c).message = "Expected JSON response"
           /\ ErrorOf(c).statusCode = Some(ResponseOf(c).status)
           /\ ~bodyUsed[c] /\ body[c] = None

C9_Witness ==
  \E c \in Calls :
    /\ Responded(c) /\ ResponseOf(c).status = 201
    /\ ResponseOf(c).contentType = Some(<<"application/json", "; charset=utf-8">>)
    /\ IsResolved(c) /\ ValueOf(c).code = Some("USER_NOT_FOUND")

\* C10: for every 429 response the RateLimit error's retryAfter is the integer
\* number of seconds the retry-after header gives when the header is present,
\* and undefined when it is absent (or empty); it is never any other value.
C10_RetryAfterIsTheHeaderSeconds ==
  \A c \in Calls :
    Done(c) /\ Responded(c) /\ ResponseOf(c).status = 429 =>
      /\ IsRejected(c)
      /\ IF ResponseOf(c).retryAfter \in {None, Some(<<>>)}
         THEN ErrorOf(c).retryAfter = None
         ELSE /\ ErrorOf(c).retryAfter # None
              /\ ~Get(ErrorOf(c).retryAfter).nan
              /\ ResponseOf(c).retryAfter = Some(<<"6", "0">>) =>
                   Get(ErrorOf(c).retryAfter).val = 60

\* The bodies that give no structured error body: the parse failed, or the
\* parsed value is null.
HasNoStructuredBody(c) ==
  body[c] # None /\ (~Get(body[c]).parses \/ Get(body[c]).json.type = "null")

\* C11: for a 404 (respectively 409) response with no parseable structured
\* body, the call rejects with a NotFound (respectively Conflict) error whose
\* code is NOT_FOUND (respectively CONFLICT).
C11_DefaultCodeWithoutBody ==
  \A c \in Calls :
    Done(c) /\ Responded(c) /\ ResponseOf(c).status \in {404, 409}
      /\ HasNoStructuredBody(c) =>
        /\ IsRejected(c)
        /\ ErrorOf(c).class = VariantOfStatus(ResponseOf(c).status)
        /\ ErrorOf(c).code =
             Some(IF ResponseOf(c).status = 404 THEN "NOT_FOUND" ELSE "CONFLICT")

\* The field `error` (respectively `code`) of the body the call read, None
\* when the body is unparseable, is no object or lacks the field.
BodyErrorOf(c) == IF Get(body[c]).parses THEN Get(body[c]).json.error ELSE None
BodyCodeOf(c) == IF Get(body[c]).parses THEN Get(body[c]).json.code ELSE None

\* The statuses with a variant of their own.
SpecialStatuses == {400, 401, 403, 404, 409, 429}

\* C12: for every non-2xx response whose status is none of 400, 401, 403, 404,
\* 409, 429 the Api error's message is the body's `error` field, or
\* "HTTP {status}: {statusText}" when the field is absent, and its code is the
\* body's `code` field, or "UNKNOWN_ERROR" when the field is absent, for every
\* body: unparseable, parsed without the fields, parsed with both fields.
C12_GenericErrorFallsBackPerField ==
  \A c \in Calls :
    Done(c) /\ Responded(c) /\ ~IsOk(ResponseOf(c))
      /\ ResponseOf(c).status \notin SpecialStatuses /\ body[c] # None =>
        /\ IsRejected(c)
        /\ ErrorOf(c).class = "ApiError"
        /\ ErrorOf(c).message =
             IF IsSome(BodyErrorOf(c)) THEN Get(BodyErrorOf(c))
             ELSE "HTTP " \o ToString(ResponseOf(c).status) \o ": "
                    \o ResponseOf(c).statusText
        /\ ErrorOf(c).code =
             IF IsSome(BodyCodeOf(c)) THEN BodyCodeOf(c) ELSE Some("UNKNOWN_ERROR")

\* C13: for every non-2xx response, whatever its status, whose JSON body
\* supplies a `code` field, the error the call rejects with carries exactly
\* that code.
C13_ServerCodeIsCarried ==
  \A c \in Calls :
    Done(c) /\ Responded(c) /\ ~IsOk(ResponseOf(c))
      /\ body[c] # None /\ IsSome(BodyCodeOf(c)) =>
        IsRejected(c) /\ ErrorOf(c).code = BodyCodeOf(c)

\* C14: the outgoing headers are the defaults Content-Type: application/json
\* and Accept: application/json, overridden by the caller-supplied headers,
\* overridden in turn by the computed Authorization value when a Signer is
\* configured: every request carries a Content-Type and an Accept header, every
\* caller-supplied header is present with the caller's value, and a
\* caller-supplied Authorization never replaces the computed one.
C14_HeadersAreDefaultsCallerThenAuthorization ==
  \A c \in Calls :
    sent[c] # None =>
      /\ {"Content-Type", "Accept"} \subseteq DOMAIN HeadersOf(c)
      /\ \A k \in {"Content-Type", "Accept"} \ DOMAIN options[c].headers :
           HeadersOf(c)[k] = "application/json"
      /\ \A k \in DOMAIN options[c].headers :
           k # "Authorization" \/ auth = None =>
             k \in DOMAIN HeadersOf(c) /\ HeadersOf(c)[k] = options[c].headers[k]
      /\ auth # None =>
           /\ "Authorization" \in DOMAIN HeadersOf(c)
           /\ Some(HeadersOf(c)["Authorization"]) = authHeader[c]

-----------------------------------------------------------------------------
(* Properties of HmacAuth.sign *)

Signed(c) == signed[c] # None /\ auth # None /\ Get(auth).type = "hmac"
ParamsOf(c) == Get(signed[c])

\* The header of the form "HMAC-SHA256 {serviceId}:{t}:{signature}", signature
\* the HMAC keyed by the secret of "{METHOD}|{path}|{t}|{bodyHash}", for the
\* parameters of call c, the clock reading t and the body hash h.
HeaderFor(c, t, h) ==
  "HMAC-SHA256 " \o Get(auth).serviceId \o ":" \o ToString(t) \o ":"
    \o HmacSha256Hex(Get(auth).secret,
                     ToUpperCase(ParamsOf(c).method) \o "|" \o ParamsOf(c).path \o "|"
                       \o ToString(t) \o "|" \o h)

\* C15: sign reads the clock exactly once per call and returns
\* "HMAC-SHA256 {serviceId}:{timestampMillis}:{signature}", signature being the
\* HMAC-SHA256 keyed by the secret of "{METHOD}|{path}|{timestampMillis}|
\* {bodyHash}": the header's timestamp is the signing string's timestamp,
\* METHOD is the upper-cased method and path is used verbatim.
C15_HeaderAndSigningStringShareOneClockReading ==
  \A c \in Calls :
    Signed(c) =>
      /\ Len(clock[c]) = 1
      /\ authHeader[c] =
           Some(HeaderFor(c, clock[c][1], hashBody(ParamsOf(c).method, ParamsOf(c).body)))

C15_Witness ==
  \E c \in Calls :
    /\ Signed(c) /\ clock[c] = <<2000>>
    /\ ParamsOf(c) = [method |-> "post", path |-> "/api/v1/users?by=uid",
                      body |-> Some("{\"cn\":\"a\"}")]
    /\ Get(auth).secret = "s3cret"
    /\ authHeader[c] =
         Some("HMAC-SHA256 svc:2000:hmac(s3cret,POST|/api/v1/users?by=uid|2000|"
                \o "sha256({\"cn\":\"a\"}))")

\* The body of call c is absent or blank after trimming.
HasBlankBody(c) == ParamsOf(c).body \in {None, Some(""), Some(" \n\t ")}

\* The upper-cased method of call c is GET, DELETE or HEAD.
IsBodilessMethod(c) ==
  ParamsOf(c).method \in {"GET", "get", "DELETE", "delete", "HEAD", "head"}

\* C16: the bodyHash component of the signing string is the empty string
\* whenever the upper-cased method is GET, DELETE or HEAD, whatever the body,
\* and whenever the body is absent or blank after trimming; in every other
\* case it is the SHA-256 hex digest of the body.
C16_BodyHashIsEmptyOrTheDigest ==
  \A c \in Calls :
    Signed(c) /\ Len(clock[c]) = 1 =>
      IF IsBodilessMethod(c) \/ HasBlankBody(c)
      THEN authHeader[c] = Some(HeaderFor(c, clock[c][1], ""))
      ELSE authHeader[c] =
             Some(HeaderFor(c, clock[c][1], Sha256Hex(Get(ParamsOf(c).body))))

C16_Witness ==
  \E c \in Calls :
    /\ Signed(c) /\ ParamsOf(c).method = "HEAD"
    /\ ParamsOf(c).body = Some("{\"cn\":\"a\"}")
    /\ authHeader[c] = Some(HeaderFor(c, clock[c][1], ""))

\* Calls c and d were signed at the same reading of the clock.
SameClock(c, d) == Signed(c) /\ Signed(d) /\ clock[c] = clock[d]

\* The methods of calls c and d differ only in letter case, or not at all.
SameMethod(c, d) ==
  \/ ParamsOf(c).method = ParamsOf(d).method
  \/ {ParamsOf(c).method, ParamsOf(d).method} \in
       {{"GET", "get"}, {"POST", "post"}, {"DELETE", "delete"}, {"HEAD", "head"},
        {"PATCH", "patch"}}

\* C17: sign is deterministic: for a fixed timestamp, two sign calls with the
\* same method, path and body on signers with the same serviceId and secret
\* return the same header, and methods that differ only in letter case return
\* the same signature.
C17_SignIsDeterministicUpToMethodCase ==
  \A c, d \in Calls :
    SameClock(c, d) /\ SameMethod(c, d) /\ ParamsOf(c).path = ParamsOf(d).path
      /\ ParamsOf(c).body = ParamsOf(d).body =>
        authHeader[c] = authHeader[d]

C17_Witness ==
  \E c, d \in Calls :
    /\ SameClock(c, d)
    /\ ParamsOf(c).method = "post" /\ ParamsOf(d).method = "POST"
    /\ ParamsOf(c).path = ParamsOf(d).path
    /\ ParamsOf(c).body = Some("{\"cn\":\"a\"}") /\ ParamsOf(d).body = ParamsOf(c).body
    /\ authHeader[c] = authHeader[d]

\* Exactly one of method (up to letter case), path and body differs between
\* the calls c and d.
OnlyMethodDiffers(c, d) ==
  ~SameMethod(c, d) /\ ParamsOf(c).path = ParamsOf(d).path
    /\ ParamsOf(c).body = ParamsOf(d).body
OnlyPathDiffers(c, d) ==
  SameMethod(c, d) /\ ParamsOf(c).path # ParamsOf(d).path
    /\ ParamsOf(c).body = ParamsOf(d).body
OnlyBodyDiffers(c, d) ==
  SameMethod(c, d) /\ ParamsOf(c).path = ParamsOf(d).path
    /\ ParamsOf(c).body # ParamsOf(d).body

\* C18 as stated: for a fixed timestamp and secret, changing any one of method,
\* path or body of sign, keeping the others equal, changes the signature.
C18_AnyChangedInputChangesSignature ==
  \A c, d \in Calls :
    SameClock(c, d)
      /\ (OnlyMethodDiffers(c, d) \/ OnlyPathDiffers(c, d) \/ OnlyBodyDiffers(c, d)) =>
        authHeader[c] # authHeader[d]

\* C18 amended: for a fixed timestamp and secret, changing the method (other
\* than its letter case) or the path changes the signature; changing the body
\* changes the signature exactly when the upper-cased method is none of GET,
\* DELETE, HEAD and the two bodies are not both absent or blank.
C18_ChangedSignedInputChangesSignature ==
  \A c, d \in Calls :
    SameClock(c, d) =>
      /\ OnlyMethodDiffers(c, d) \/ OnlyPathDiffers(c, d) =>
           authHeader[c] # authHeader[d]
      /\ OnlyBodyDiffers(c, d) =>
           (authHeader[c] # authHeader[d]
              <=> ~IsBodilessMethod(c) /\ ~(HasBlankBody(c) /\ HasBlankBody(d)))

C18_Witness ==
  \E c, d \in Calls :
    /\ SameClock(c, d) /\ OnlyBodyDiffers(c, d)
    /\ ParamsOf(c).method = "delete"
    /\ ParamsOf(c).body = Some("{\"cn\":\"a\"}") /\ ParamsOf(d).body = Some("{\"cn\":\"b\"}")
    /\ authHeader[c] = authHeader[d]

-----------------------------------------------------------------------------
(* Properties of construction *)

GivenConfig == Get(given)

\* The configurations the claim C19 calls invalid.
IsInvalidConfig(cfg) ==
  \/ cfg.baseUrl \in {"", " "}
  \/ cfg.baseUrl = "not-a-url"
  \/ /\ cfg.auth # None /\ Get(cfg.auth).type = "hmac"
     /\ (Get(cfg.auth).serviceId \in {"", " "} \/ Get(cfg.auth).secret \in {"", " "})
  \/ /\ cfg.timeout # None
     /\ ~(Get(cfg.timeout).t = "number" /\ Get(cfg.timeout).n > 0)

\* C19: constructing an LdapRestClient with an empty or blank baseUrl, a
\* baseUrl that is no valid URL, HMAC auth with an empty or blank serviceId or
\* secret, or a timeout that is not a positive finite number throws and yields
\* no client; every existing client has a non-blank serviceId and secret in
\* HMAC mode and a positive finite timeout (30000 when omitted), and sign is
\* never reached with an invalid configuration.
C19_OnlyValidConfigurationsGiveAClient ==
  /\ client.state # "new" =>
       /\ client.state = "threw" <=> IsInvalidConfig(GivenConfig)
       /\ client.state = "threw" =>
            /\ client.error # None
            /\ config = None /\ auth = None
            /\ \A c \in Calls : pc[c] = "idle" /\ sent[c] = None
       /\ client.state = "built" =>
            /\ auth # None <=>
                 (GivenConfig.auth # None /\ Get(GivenConfig.auth).type = "hmac")
            /\ auth # None =>
                 /\ Get(auth).serviceId \notin BlankStrings
                 /\ Get(auth).secret \notin BlankStrings
            /\ config.timeout > 0
            /\ GivenConfig.timeout = None => config.timeout = 30000
            /\ GivenConfig.timeout # None => Num(config.timeout) = Get(GivenConfig.timeout)
  /\ \A c \in Calls :
       signed[c] # None =>
         /\ client.state = "built" /\ ~IsInvalidConfig(GivenConfig)
         /\ Get(auth).serviceId \notin BlankStrings /\ Get(auth).secret \notin BlankStrings

C19_Witness ==
  /\ client.state = "threw"
  /\ client.error = Some("secret is required for HMAC authentication")
  /\ GivenConfig.baseUrl = "https://api.example.com"
  /\ GivenConfig.auth = Some([type |-> "hmac", serviceId |-> "svc", secret |-> " "])
  /\ GivenConfig.timeout = None

-----------------------------------------------------------------------------
(* Properties of the convenience methods *)

\* The HTTP method each convenience method stands for.
MethodOfVerb(verb) ==
  CASE verb = "get"    -> "GET"
    [] verb = "post"   -> "POST"
    [] verb = "put"    -> "PUT"
    [] verb = "patch"  -> "PATCH"
    [] verb = "delete" -> "DELETE"

\* C20: each of get, post, put, patch, delete is a thin alias over request: it
\* issues exactly one request with the matching HTTP method, passes path, body
\* and headers through unchanged (the body sent is JSON.stringify(body)), and
\* its outcome is that of the corresponding request call: a promise that
\* resolves or rejects as request does.
C20_ConvenienceMethodsAreAliases ==
  \A c \in Calls :
    called[c] # None =>
      /\ sent[c] # None
      /\ Get(sent[c]).method = MethodOfVerb(Get(called[c]).verb)
      /\ Get(sent[c]).url = config.baseUrl \o Get(called[c]).path
      /\ Get(sent[c]).body =
           IF Get(called[c]).body = None THEN None
           ELSE Some(JSONStringify(Get(Get(called[c]).body)))
      /\ options[c] = [method |-> MethodOfVerb(Get(called[c]).verb),
                       path |-> Get(called[c]).path, body |-> Get(called[c]).body,
                       headers |-> Get(called[c]).headers]
      /\ Done(c) => Get(outcome[c]).state \in {"resolved", "rejected"}

-----------------------------------------------------------------------------
(* Properties of the timer, of what is signed and of the pass of a call *)

\* C23: the timeout timer of a call is cleared on every exit path of request
\* (response received, transport failure, timeout, exception thrown while
\* handling): the timer is armed only while the fetch is pending, and once the
\* call has a response or has settled its timer is cleared, so no timer
\* callback and no abort of the controller happens after the call completed.
C23_TimerIsClearedOnEveryExitPath ==
  \A c \in Calls :
    /\ timer[c] = "armed" => pc[c] = "fetching"
    /\ (Done(c) \/ pc[c] = "reading") => timer[c] = "cleared"
    /\ aborted[c] => Failed(c) /\ FailureOf(c) = AbortErrorOfSignal

\* A call that settled with an exception thrown while the response was
\* handled (the body was not JSON), its timer cleared and never fired.
C23_Witness_ClearedAfterHandlingThrew ==
  \E c \in Calls :
    /\ IsRejected(c) /\ Responded(c) /\ ErrorOf(c) = JsonSyntaxError
    /\ timer[c] = "cleared" /\ ~aborted[c]

\* C24: what is signed is what is sent. The body string handed to the signer
\* is the string handed to the transport, which is the one serialization of
\* the caller's body; the method signed is the method sent, and the path
\* signed is the path appended to the base URL to form the target URL.
C24_WhatIsSignedIsWhatIsSent ==
  \A c \in Calls :
    sent[c] # None =>
      /\ Get(sent[c]).body = BodyString(options[c])
      /\ auth # None =>
           /\ signed[c] # None
           /\ ParamsOf(c).body = Get(sent[c]).body
           /\ ParamsOf(c).method = Get(sent[c]).method
           /\ Get(sent[c]).url = config.baseUrl \o ParamsOf(c).path

\* A signed POST whose body went to the signer and to the transport.
C24_Witness_SignedBodyIsSent ==
  \E c \in Calls :
    /\ Signed(c) /\ sent[c] # None
    /\ ParamsOf(c).method = "POST"
    /\ options[c].body # None
    /\ ParamsOf(c).body = Some(JSONStringify(Get(options[c].body)))
    /\ Get(sent[c]).body = ParamsOf(c).body
    /\ Get(sent[c]).url = config.baseUrl \o "/api/v1/users"

\* Everything request holds for call c.
CallState(c) ==
  <<options[c], signed[c], authHeader[c], clock[c], sent[c], timer[c], aborted[c],
    failure[c], response[c], bodyUsed[c], body[c], outcome[c], log[c]>>

\* The moves of one call: started, then either a response (settled at once or
\* after its body was read) or a failure, then taken by the caller.
PassOfRequest ==
  {<<"idle", "fetching">>, <<"fetching", "reading">>, <<"fetching", "done">>,
   <<"reading", "done">>, <<"done", "idle">>}

\* C25: each request call is one pass: built and signed when it starts, sent,
\* then a response or a failure, then its outcome. The transport is invoked
\* at most once per call (never retried, whatever the status or the failure),
\* the signer at most once, and a call in a terminal state moves no further.
C25_OnePassPerCall ==
  [][\A c \in Calls :
       /\ pc'[c] # pc[c] => <<pc[c], pc'[c]>> \in PassOfRequest
       /\ pc'[c] = pc[c] => CallState(c)' = CallState(c)
       /\ pc[c] # "idle" /\ pc'[c] # "idle" =>
            /\ sent'[c] = sent[c] /\ sent[c] # None
            /\ signed'[c] = signed[c]
            /\ authHeader'[c] = authHeader[c]
            /\ clock'[c] = clock[c]
       /\ Len(clock'[c]) <= 1
       /\ Done(c) /\ pc'[c] # "idle" => outcome'[c] = outcome[c]]_vars

\* A signed call whose response was 503: settled with the ApiError after one
\* fetch and one reading of the clock.
C25_Witness_ServerErrorIsNotRetried ==
  \E c \in Calls :
    /\ IsRejected(c) /\ Responded(c) /\ ResponseOf(c).status = 503
    /\ ErrorOf(c).class = "ApiError"
    /\ Signed(c) /\ Len(clock[c]) = 1

-----------------------------------------------------------------------------
(* Properties of the log of a call, of the timeout error and of signed bodies *)

InfoRecords(c) == {i \in DOMAIN log[c] : log[c][i].level = "info"}
DebugRecords(c) == {i \in DOMAIN log[c] : log[c][i].level = "debug"}

\* C28: for every request call a debug record (method, target URL, whether a
\* body is present) is emitted before the transport is invoked, and for every
\* call whose attempt yields a response exactly one info record carrying that
\* response's status is emitted after the response arrives and before the
\* outcome is delivered; a call without a response has no info record.
C28_DebugBeforeFetchAndOneInfoPerResponse ==
  \A c \in Calls :
    sent[c] # None =>
      /\ DebugRecords(c) = {1}
      /\ log[c][1] = LogRecord("debug", "Sending request",
                               [method  |-> Get(sent[c]).method,
                                url     |-> Get(sent[c]).url,
                                hasBody |-> Get(sent[c]).body # None])
      /\ Cardinality(InfoRecords(c)) = IF Responded(c) THEN 1 ELSE 0
      /\ Responded(c) =>
           /\ InfoRecords(c) = {2}
           /\ log[c][2].message = "Request completed"
           /\ log[c][2].context.status = ResponseOf(c).status

\* A call rejected for a 404 response, with its debug record and one info
\* record of status 404; nothing else was logged.
C28_Witness_InfoRecordOfAnErrorStatus ==
  \E c \in Calls :
    /\ IsRejected(c) /\ Responded(c) /\ ResponseOf(c).status = 404
    /\ Len(log[c]) = 2
    /\ log[c][1].level = "debug" /\ log[c][1].context.hasBody
    /\ log[c][2].level = "info" /\ log[c][2].context.status = 404

\* C29: the timeout NetworkError is produced only by the call's own timer: a
\* call rejects with "Request timeout after {T}ms" only if its timer fired
\* while the fetch was pending; a transport failure that occurs before the
\* timer fires, whatever its name or type, is never reported as a timeout.
C29_TimeoutErrorOnlyFromOwnTimer ==
  \A c \in Calls :
    IsRejected(c) /\ ErrorOf(c) = TimeoutError(config) => aborted[c]

\* C30: with a signer, no body is transmitted that the signature does not
\* cover: whatever the method, if a non-empty body string is sent then the
\* Authorization header sent is the one whose signing string ends with the
\* SHA-256 digest of exactly that string.
C30_SentBodyIsCoveredBySignature ==
  \A c \in Calls :
    (Signed(c) /\ sent[c] # None /\ IsSome(Get(sent[c]).body)
       /\ Get(Get(sent[c]).body) # "") =>
      /\ "Authorization" \in DOMAIN Get(sent[c]).headers
      /\ Get(sent[c]).headers["Authorization"] =
           HeaderFor(c, clock[c][1], Sha256Hex(Get(Get(sent[c]).body)))

-----------------------------------------------------------------------------
(* Properties of the timeout on any transport *)

\* C22: once a call's timer has fired, the transport can no longer determine
\* the call's outcome: whatever it does afterwards (resolve with a response,
\* reject with any error), a settled call whose timer fired has the timeout
\* NetworkError as its outcome, and no response is handled for it.
C22_TimeoutWinsOverLateTransport ==
  \A c \in Calls :
    aborted[c] =>
      /\ ~Responded(c)
      /\ Done(c) => outcome[c] = Some(Rejected(TimeoutError(config)))

-----------------------------------------------------------------------------
(* Properties of calls in flight together *)

\* The clock reading of call c, if it took one.
ClockOf(c) == IF Len(clock[c]) = 1 THEN clock[c][1] ELSE 0

\* What call c hands to fetch when it runs alone: a function of the client's
\* configuration and signer, of the call's own options and of the clock.
SentAlone(c) ==
  LET bodyString == BodyString(options[c])
  IN  FetchArgs(config, options[c], bodyString,
                AuthSign(auth, SignatureParams(options[c], bodyString), ClockOf(c)))

\* The outcome of call c when it runs alone against what the transport did
\* for it: the failure of its fetch, or its response and the body read.
OutcomeAlone(c) ==
  IF Failed(c) THEN Rejected(CatchThrows(config, FailureOf(c)))
  ELSE IF HandleResponseHead(ResponseOf(c)) # None
  THEN Get(HandleResponseHead(ResponseOf(c)))
  ELSE HandleResponseBody(ResponseOf(c), Get(body[c]))

\* C26: for any interleaving of calls in flight on one HttpClient, each call
\* owns its timer and its cancellation handle: the expiry of one call's timer
\* aborts that call only and leaves every other call as it was, a call is
\* aborted only by its own timer, and each call's outcome is the one it would
\* have had alone against the same transport behaviour.
C26_CallsInFlightAreIsolated ==
  [][\A c \in Calls :
       /\ aborted'[c] /\ ~aborted[c] =>
            /\ pc[c] = "fetching" /\ timer[c] = "armed"
            /\ \A d \in Calls \ {c} : CallState(d)' = CallState(d) /\ pc'[d] = pc[d]
       /\ Done(c)' => outcome'[c] = Some(OutcomeAlone(c)')
       /\ Done(c)' /\ aborted'[c] => outcome'[c] = Some(Rejected(TimeoutError(config)))
       /\ Done(c)' /\ ~aborted'[c] => outcome'[c] # Some(Rejected(TimeoutError(config)))]_vars

\* One call timed out while another, not aborted, resolved with its response.
C26_Witness_OneTimedOutOneResolved ==
  \E c, d \in Calls :
    /\ c # d
    /\ Done(c) /\ aborted[c] /\ outcome[c] = Some(Rejected(TimeoutError(config)))
    /\ IsResolved(d) /\ ~aborted[d] /\ Responded(d) /\ ResponseOf(d).status = 200

\* The configuration and the signer the constructor makes from the given
\* ClientConfig.
ConfigAtConstruction == ToHttpConfig(Normalize(GivenConfig))
AuthAtConstruction ==
  IF Normalize(GivenConfig).auth.type = "hmac" THEN Some(Normalize(GivenConfig).auth)
  ELSE None

\* C27: the pipeline is stateless between calls: whatever calls were made and
\* however they ended, the client's baseUrl, timeout and auth are those of
\* construction, the caller's options and headers are as the caller gave them,
\* and what a call sends and how it ends depend only on its own options, on
\* what the transport did for it and on the clock.
C27_StatelessBetweenCalls ==
  client.state = "built" =>
    /\ config = ConfigAtConstruction
    /\ auth = AuthAtConstruction
    /\ \A c \in Calls :
         /\ pc[c] # "idle" =>
              /\ options[c] \in ConcurrentOptions
              /\ sent[c] = Some(SentAlone(c))
         /\ Done(c) => outcome[c] = Some(OutcomeAlone(c))

\* Two calls with the same options on a client in hmac mode: the earlier one
\* was rejected for a 404 response and the other one resolved.
C27_Witness_SameOptionsAfterAFailure ==
  \E c, d \in Calls :
    /\ c # d /\ options[c] = options[d]
    /\ auth # None
    /\ IsRejected(c) /\ ErrorOf(c).class = "NotFoundError"
    /\ IsResolved(d) /\ sent[d] = sent[c]

\* What an observer without access to secrets is given about call c: method,
\* path, whether there is a body, and what the transport did.
PublicView(c) ==
  [started  |-> pc[c] # "idle",
   method   |-> options[c].method,
   path     |-> options[c].path,
   hasBody  |-> options[c].body # None,
   response |-> response[c],
   failure  |-> failure[c]]

\* The records of call c, written from the public view and the base URL and
\* timeout of the client alone.
RecordsOf(view) ==
  IF ~view.started THEN <<>>
  ELSE <<[level |-> "debug", message |-> "Sending request",
          context |-> [method |-> view.method, url |-> config.baseUrl \o view.path,
                       hasBody |-> view.hasBody]]>>
       \o (IF view.response = None THEN <<>>
           ELSE <<[level |-> "info", message |-> "Request completed",
                   context |-> [method |-> view.method, path |-> view.path,
                                status |-> Get(view.response).status]]>>)
       \o (IF view.failure = None \/ IsRethrown(Get(view.failure)) THEN <<>>
           ELSE IF IsAbortError(Get(view.failure))
           THEN <<[level |-> "error", message |-> "Request timeout",
                   context |-> [method |-> view.method, path |-> view.path,
                                timeoutMs |-> config.timeout]]>>
           ELSE <<[level |-> "error", message |-> "Network request failed",
                   context |-> [method |-> view.method, path |-> view.path,
                                error |-> ErrorMessage(Get(view.failure))]]>>)

\* The record of the constructor, written from the base URL and the kind of
\* authentication alone.
RecordsOfConstruction ==
  <<[level |-> "info", message |-> "Initializing LDAP-REST client",
     context |-> [baseUrl  |-> config.baseUrl,
                  authType |-> IF auth = None THEN "cookie" ELSE "hmac"]]>>

\* C21: no record passed to the logger contains the request body, a header
\* value (the Authorization token included) or the signing secret: two calls
\* that differ only in the content of the body or in the values of headers
\* pass identical sequences of (level, message, context) records, and every
\* record is determined by the method, the path, the presence of a body, the
\* base URL, the timeout, the kind of authentication and what the transport
\* did, whatever the secret.
C21_LogsCarryNoBodyHeaderOrSecret ==
  client.state = "built" =>
    /\ \A c, d \in Calls : PublicView(c) = PublicView(d) => log[c] = log[d]
    /\ \A c \in Calls : log[c] = RecordsOf(PublicView(c))
    /\ client.log = RecordsOfConstruction

\* Two calls on a client in hmac mode that differ in the content of the body
\* and in a header value, both failed by the transport: each logged the debug
\* and the error record, and the two sequences are the same.
C21_Witness_SameRecordsForDifferentSecrets ==
  \E c, d \in Calls :
    /\ auth # None /\ Get(auth).secret = "0ther" /\ Len(client.log) = 1
    /\ options[c].body # options[d].body
    /\ options[c].headers # options[d].headers
    /\ authHeader[c] # authHeader[d]
    /\ Failed(c) /\ Failed(d) /\ ~aborted[c] /\ ~aborted[d]
    /\ Len(log[c]) = 2 /\ log[c] = log[d]

====
